---- MODULE Spec2Model ----
(***************************************************************************)
(* rust-budget (src/src/main.rs): a budget store (balance + positional     *)
(* list of one-time and recurring transactions), persisted wholesale to    *)
(* budget_state.json after every mutating menu command, and a forecast     *)
(* that expands recurrences, sorts the events by date and walks 12 monthly *)
(* checkpoints.                                                            *)
(*                                                                         *)
(* Modelling choices:                                                      *)
(*  - f64 amounts and balances are integers (exact arithmetic);            *)
(*  - a NaiveDate is its day number (days since 1970-01-01); the calendar  *)
(*    fields are recovered with the proleptic Gregorian conversion that    *)
(*    chrono implements, so with_day(1) and "+ 32 days" are computed, not  *)
(*    assumed;                                                             *)
(*  - Option<T> is a sequence: None is << >>, Some((p, c)) is <<p, c>>,    *)
(*    Some(i) is <<i>>;                                                    *)
(*  - one action is one turn of the menu loop (read the choice, read the   *)
(*    inputs, run the handler, save when the arm saves).                   *)
(***************************************************************************)
EXTENDS Integers, Sequences, FiniteSets, TLC

VARIABLES
    budget,          \* main.rs:134  the BudgetState in memory: [balance, transactions]
    file,            \* the contents of budget_state.json: [kind, data]
    pc,              \* "waiting" (at read_line, main.rs:139), "exited", "panicked"
    choice,          \* the menu choice of the last turn (main.rs:141), "" before any
    index,           \* Option<usize>: the index parsed in arm "3"/"4" of the last turn
    today,           \* the system clock's local date, as Local::now().date_naive() reads it
    events,          \* forecast's queue as populated at main.rs:100 (before the sort)
    month_balances,  \* forecast's month_balances at main.rs:121
    stdout           \* the lines printed by the last turn (each line a tuple)

vars == <<budget, file, pc, choice, index, today, events, month_balances, stdout>>

(***************************************************************************)
(* Bounds of the model.                                                    *)
(***************************************************************************)
MaxTx == 2          \* largest number of transactions the model lets a store hold
MaxCount == 2       \* largest occurrence count entered for a recurrence

(***************************************************************************)
(* chrono's calendar: day number <-> (year, month, day).                   *)
(***************************************************************************)
days_from_civil(y, m, d) ==
    LET yy  == IF m <= 2 THEN y - 1 ELSE y
        era == yy \div 400
        yoe == yy - era * 400
        mp  == IF m > 2 THEN m - 3 ELSE m + 9
        doy == (153 * mp + 2) \div 5 + d - 1
        doe == yoe * 365 + yoe \div 4 - yoe \div 100 + doy
    IN  era * 146097 + doe - 719468

civil_from_days(z) ==
    LET zz  == z + 719468
        era == zz \div 146097
        doe == zz - era * 146097
        yoe == (doe - doe \div 1460 + doe \div 36524 - doe \div 146096) \div 365
        doy == doe - (365 * yoe + yoe \div 4 - yoe \div 100)
        mp  == (5 * doy + 2) \div 153
        d   == doy - (153 * mp + 2) \div 5 + 1
        m   == IF mp < 10 THEN mp + 3 ELSE mp - 9
        y   == yoe + era * 400 + (IF m <= 2 THEN 1 ELSE 0)
    IN  <<y, m, d>>

\* NaiveDate::with_day(1).unwrap(): same year and month, day 1
with_day_1(date) ==
    LET c == civil_from_days(date) IN days_from_civil(c[1], c[2], 1)

\* Duration::weeks(n) and Duration::days(n), in days
weeks(n) == 7 * n
days(n) == n

(***************************************************************************)
(* Transaction and BudgetState.                                            *)
(***************************************************************************)
None == << >>

Transaction(amount, date, recurrence, note) ==
    [amount |-> amount, date |-> date, recurrence |-> recurrence, note |-> note]

new(balance) == [balance |-> balance, transactions |-> << >>]

add_transaction(self, amount, date, recurrence, note) ==
    [self EXCEPT !.transactions = Append(@, Transaction(amount, date, recurrence, note))]

InvalidId == <<"Invalid transaction ID.">>

\* remove with the index taken as one-based (the variant C7 must tell apart)
remove_one_based(v, i) == [p \in 1..(Len(v) - 1) |-> IF p < i THEN v[p] ELSE v[p + 1]]

\* Vec::remove(index): the elements after index shift down by one
remove(v, i) == [p \in 1..(Len(v) - 1) |-> IF p <= i THEN v[p] ELSE v[p + 1]]

\* delete_transaction with the bound test index <= len (the variant C8 must
\* tell apart): position len drops the last transaction
delete_transaction_inclusive(self, i) ==
    IF i <= Len(self.transactions)
    THEN [state |-> [self EXCEPT !.transactions =
                        [p \in 1..(Len(@) - 1) |-> IF p <= i THEN @[p] ELSE @[p + 1]]],
          out |-> << >>]
    ELSE [state |-> self, out |-> <<InvalidId>>]

\* delete_transaction: the store afterwards and the lines printed
delete_transaction(self, i) ==
    IF i < Len(self.transactions)
    THEN [state |-> [self EXCEPT !.transactions = remove(@, i)], out |-> << >>]
    ELSE [state |-> self, out |-> <<InvalidId>>]

\* edit_transaction: the store afterwards and the lines printed
edit_transaction(self, i, new_amount, new_date, new_recurrence, new_note) ==
    IF i < Len(self.transactions)
    THEN [state |-> [self EXCEPT !.transactions[i + 1] =
                        Transaction(new_amount, new_date, new_recurrence, new_note)],
          out |-> << >>]
    ELSE [state |-> self, out |-> <<InvalidId>>]

\* list_transactions: the rows printed after the two header lines
recurrence_str(r) == IF r # None THEN <<r[1], r[2]>> ELSE <<"One-time">>

list_transactions(self) ==
    [p \in 1..Len(self.transactions) |->
        LET t == self.transactions[p]
        IN  <<p - 1, t.amount, civil_from_days(t.date), recurrence_str(t.recurrence), t.note>>]

(***************************************************************************)
(* Persistence: serde_json of the derived Serialize / Deserialize.         *)
(***************************************************************************)
Absent == [kind |-> "absent", data |-> << >>]
Garbage == [kind |-> "garbage", data |-> << >>]

\* Option<(String, usize)> serializes as null or as a two-element array
recurrence_to_json(r) == IF r = None THEN <<"null">> ELSE <<"array", r[1], r[2]>>
recurrence_from_json(j) == IF j[1] = "null" THEN None ELSE <<j[2], j[3]>>

\* NaiveDate serializes as the ISO string YYYY-MM-DD
transaction_to_json(t) ==
    [amount |-> t.amount, date |-> civil_from_days(t.date),
     recurrence |-> recurrence_to_json(t.recurrence), note |-> t.note]
transaction_from_json(j) ==
    Transaction(j.amount, days_from_civil(j.date[1], j.date[2], j.date[3]),
                recurrence_from_json(j.recurrence), j.note)

to_string(self) ==
    [balance |-> self.balance,
     transactions |-> [p \in 1..Len(self.transactions) |->
                          transaction_to_json(self.transactions[p])]]
from_str(j) ==
    [balance |-> j.balance,
     transactions |-> [p \in 1..Len(j.transactions) |->
                          transaction_from_json(j.transactions[p])]]

Json(self) == [kind |-> "json", data |-> <<to_string(self)>>]

load_from_file(f) == IF f.kind = "json" THEN from_str(f.data[1]) ELSE new(0)

(***************************************************************************)
(* forecast (main.rs:78-129).                                              *)
(***************************************************************************)
Recognized == {"weekly", "biweekly", "monthly"}

\* advance with a 31-day month (the variant C5 must tell apart)
advance_31(period, date) ==
    CASE period = "weekly"   -> date + 7
      [] period = "biweekly" -> date + 14
      [] period = "monthly"  -> date + 31

\* main.rs:91-96  the match on the period, for a recognized period
advance(period, date) ==
    CASE period = "weekly"   -> date + weeks(1)
      [] period = "biweekly" -> date + weeks(2)
      [] period = "monthly"  -> date + days(30)

\* repeats whose match has a default arm that steps 30 days instead of
\* breaking (the variant C4 must tell apart)
RECURSIVE repeats_default_arm(_, _, _, _)
repeats_default_arm(t, period, date, remaining) ==
    IF remaining = 0 THEN << >>
    ELSE LET next == IF period \in {"weekly", "biweekly"}
                     THEN advance(period, date)
                     ELSE date + 30
         IN  <<Transaction(t.amount, next, << >>, t.note)>>
                 \o repeats_default_arm(t, period, next, remaining - 1)

\* main.rs:90-98  for _ in 0..count { date = match ...; events.push_back(...) }
RECURSIVE repeats(_, _, _, _)
repeats(t, period, date, remaining) ==
    IF remaining = 0 THEN << >>
    ELSE IF period \notin Recognized THEN << >>                   \* _ => break
    ELSE LET next == advance(period, date)
         IN  <<Transaction(t.amount, next, None, t.note)>>
                 \o repeats(t, period, next, remaining - 1)

\* main.rs:87-99  the events one transaction pushes
expand(t) ==
    <<t>> \o (IF t.recurrence # None
              THEN repeats(t, t.recurrence[1], t.date, t.recurrence[2])
              ELSE << >>)

\* main.rs:86-100  for t in &self.transactions
RECURSIVE populate(_)
populate(transactions) ==
    IF transactions = << >> THEN << >>
    ELSE expand(Head(transactions)) \o populate(Tail(transactions))

\* main.rs:102  sort_by_key(|t| t.date): a stable sort, as insertion after
\* the last element whose key is not greater
RECURSIVE insert_sorted(_, _)
insert_sorted(sorted, t) ==
    IF sorted = << >> THEN <<t>>
    ELSE IF Head(sorted).date <= t.date
         THEN <<Head(sorted)>> \o insert_sorted(Tail(sorted), t)
         ELSE <<t>> \o sorted

RECURSIVE sort_by_key(_)
sort_by_key(evs) ==
    IF evs = << >> THEN << >>
    ELSE insert_sorted(sort_by_key(SubSeq(evs, 1, Len(evs) - 1)), evs[Len(evs)])

\* next_checkpoint without the first with_day(1) (the variant C6 must tell apart)
next_checkpoint_from_today(current_date) ==
    with_day_1(current_date + 32)

\* main.rs:105-106  the first day of the month after current_date's month
next_checkpoint(current_date) ==
    LET next_month == with_day_1(current_date) + days(32)
    IN  with_day_1(next_month)

\* consume that breaks on t.date > current_date (the variant C1 must tell apart)
RECURSIVE consume_inclusive(_, _, _)
consume_inclusive(evs, balance, current_date) ==
    IF evs = << >> THEN [balance |-> balance, events |-> evs]
    ELSE IF Head(evs).date > current_date THEN [balance |-> balance, events |-> evs]
    ELSE consume_inclusive(Tail(evs), balance + Head(evs).amount, current_date)

\* main.rs:108-112  while let Some(t) = events.front() { ... }
RECURSIVE consume(_, _, _)
consume(evs, balance, current_date) ==
    IF evs = << >> THEN [balance |-> balance, events |-> evs]
    ELSE IF Head(evs).date >= current_date THEN [balance |-> balance, events |-> evs]
    ELSE consume(Tail(evs), balance + Head(evs).amount, current_date)

HORIZON == 12       \* main.rs:104  for _ in 0..12

\* walk with the commented-out break of main.rs:116-119 in force (the variant
\* C2 must tell apart)
RECURSIVE walk_break(_, _, _, _, _)
walk_break(i, current_date, balance, evs, acc) ==
    IF i = HORIZON THEN acc
    ELSE LET checkpoint == next_checkpoint(current_date)
             c == consume(evs, balance, checkpoint)
             pushed == Append(acc, <<checkpoint, c.balance>>)
         IN  IF c.balance <= 0 THEN pushed
             ELSE walk_break(i + 1, checkpoint, c.balance, c.events, pushed)

\* main.rs:104-120  for _ in 0..12 { ... month_balances.push(...) }
RECURSIVE walk(_, _, _, _, _)
walk(i, current_date, balance, evs, acc) ==
    IF i = HORIZON THEN acc
    ELSE LET checkpoint == next_checkpoint(current_date)
             c == consume(evs, balance, checkpoint)
         IN  walk(i + 1, checkpoint, c.balance, c.events,
                  Append(acc, <<checkpoint, c.balance>>))

\* main.rs:79-120  the pairs forecast records for the queue populated from self
forecast(self, queue, date) ==
    walk(0, date, self.balance, sort_by_key(queue), << >>)

\* main.rs:122-124  println!("{}: {:.2}", date.format("%Y-%m"), bal)
format_line(pair) ==
    LET c == civil_from_days(pair[1]) IN <<c[1], c[2], pair[2]>>

(***************************************************************************)
(* Inputs.                                                                 *)
(***************************************************************************)
Day(y, m, d) == days_from_civil(y, m, d)

Amounts == {-2, 3}
Balances == {0, 5}
Notes == {"rent", "gym"}
Periods == {"weekly", "biweekly", "monthly", "daily"}

\* what the user types at the menu
MenuDates == {Day(2024, 1, 20)}
MenuRecurrences == {None, <<"monthly", MaxCount>>}
MenuToday == {Day(2024, 1, 15)}
Indices == 0..(MaxTx + 1)

\* the stores a persisted file can hold when the program starts
StoreDates == {Day(2023, 12, 5), Day(2024, 3, 1), Day(2024, 12, 20)}
StoreRecurrences ==
    {None, <<"monthly", 0>>} \cup {<<p, MaxCount>> : p \in Periods}
StoreTransactions ==
    {Transaction(-2, d, r, "rent") : d \in StoreDates, r \in StoreRecurrences}
        \cup {Transaction(3, d, r, "gym") :
                  d \in StoreDates, r \in {None, <<"weekly", MaxCount>>}}
Stores ==
    {[balance |-> b, transactions |-> ts] :
        b \in Balances, ts \in UNION {[1..n -> StoreTransactions] : n \in 0..MaxTx}}
AsOfDates == {Day(2024, 1, 15), Day(2023, 12, 31)}

\* every day of 2023..2026 (2024 is a leap year) and of 2099..2100 (2100 is not)
AllDays ==
    (Day(2023, 1, 1)..Day(2026, 12, 31)) \cup (Day(2099, 1, 1)..Day(2100, 12, 31))

(***************************************************************************)
(* main (main.rs:132-231): one action per turn of the loop.                *)
(***************************************************************************)
\* main.rs:134  let mut budget = BudgetState::load_from_file(filename)
Start(f, date) ==
    /\ file = f
    /\ today = date
    /\ budget = load_from_file(f)
    /\ pc = "waiting"
    /\ choice = ""
    /\ index = None
    /\ events = << >>
    /\ month_balances = << >>
    /\ stdout = << >>

InitFiles == {Absent, Garbage} \cup {Json(new(b)) : b \in Balances}

Init == \E f \in InitFiles, date \in MenuToday : Start(f, date)

\* save_to_file (main.rs:64-67) at the end of an arm: the file is rewritten
\* whole, or fs::write fails and expect() panics with the file left as it
\* was or truncated
save_to_file(self, out) ==
    \/ /\ file' = Json(self)
       /\ pc' = "waiting"
       /\ stdout' = out
    \/ /\ file' \in {file, Garbage}
       /\ pc' = "panicked"
       /\ stdout' = Append(out, <<"Failed to write file">>)

\* the locals of forecast do not exist in the other arms
NoForecast == events' = << >> /\ month_balances' = << >>

\* main.rs:142-176  arm "1"
AddCmd ==
    /\ pc = "waiting"
    /\ Len(budget.transactions) < MaxTx
    /\ \E amount \in Amounts, date \in MenuDates, recurrence \in MenuRecurrences,
          note \in Notes :
          LET after == add_transaction(budget, amount, date, recurrence, note)
          IN  /\ budget' = after
              /\ save_to_file(after, << >>)
    /\ choice' = "1"
    /\ index' = None
    /\ NoForecast
    /\ UNCHANGED today

\* main.rs:177  arm "2"
ListCmd ==
    /\ pc = "waiting"
    /\ choice' = "2"
    /\ stdout' = list_transactions(budget)
    /\ index' = None
    /\ NoForecast
    /\ UNCHANGED <<budget, file, pc, today>>

\* arm "3" without its save_to_file call (the variant C9 must tell apart)
DeleteCmdNoSave ==
    /\ pc = "waiting"
    /\ \E i \in Indices :
          LET r == delete_transaction(budget, i)
          IN  /\ index' = <<i>>
              /\ budget' = r.state
              /\ stdout' = r.out
    /\ choice' = "3"
    /\ NoForecast
    /\ UNCHANGED <<file, pc, today>>

\* main.rs:178-185  arm "3"
DeleteCmd ==
    /\ pc = "waiting"
    /\ \E i \in Indices :
          LET r == delete_transaction(budget, i)
          IN  /\ index' = <<i>>
              /\ budget' = r.state
              /\ save_to_file(r.state, r.out)
    /\ choice' = "3"
    /\ NoForecast
    /\ UNCHANGED today

\* main.rs:186-225  arm "4"
EditCmd ==
    /\ pc = "waiting"
    /\ \E i \in Indices, amount \in Amounts, date \in MenuDates,
          recurrence \in MenuRecurrences, note \in Notes :
          LET r == edit_transaction(budget, i, amount, date, recurrence, note)
          IN  /\ index' = <<i>>
              /\ budget' = r.state
              /\ save_to_file(r.state, r.out)
    /\ choice' = "4"
    /\ NoForecast
    /\ UNCHANGED today

\* arm "5" with a forecast that stores its running balance back into the
\* store (the variant C10 must tell apart)
ForecastCmdWriteBack ==
    /\ pc = "waiting"
    /\ events' = populate(budget.transactions)
    /\ month_balances' = forecast(budget, events', today)
    /\ stdout' = [k \in DOMAIN month_balances' |-> format_line(month_balances'[k])]
    /\ budget' = [budget EXCEPT !.balance = month_balances'[HORIZON][2]]
    /\ choice' = "5"
    /\ index' = None
    /\ UNCHANGED <<file, pc, today>>

\* main.rs:226  arm "5"
ForecastCmd ==
    /\ pc = "waiting"
    /\ events' = populate(budget.transactions)
    /\ month_balances' = forecast(budget, events', today)
    /\ stdout' = [k \in DOMAIN month_balances' |-> format_line(month_balances'[k])]
    /\ choice' = "5"
    /\ index' = None
    /\ UNCHANGED <<budget, file, pc, today>>

\* main.rs:227  arm "6"
ExitCmd ==
    /\ pc = "waiting"
    /\ pc' = "exited"
    /\ choice' = "6"
    /\ stdout' = << >>
    /\ index' = None
    /\ NoForecast
    /\ UNCHANGED <<budget, file, today>>

\* main.rs:228  any other line
InvalidOption ==
    /\ pc = "waiting"
    /\ choice' = "other"
    /\ stdout' = << <<"Invalid option, try again.">> >>
    /\ index' = None
    /\ NoForecast
    /\ UNCHANGED <<budget, file, pc, today>>

\* the messages of the expect() calls an arm makes before it calls the store
ParseErrors(c) ==
    IF c = "1" THEN {"Invalid amount", "Invalid date format", "Invalid number"}
    ELSE IF c = "3" THEN {"Invalid number"}
    ELSE {"Invalid number", "Invalid amount", "Invalid date format"}

\* main.rs:146,151,168,182,190,195,200,217  an input that does not parse
InputPanic ==
    /\ pc = "waiting"
    /\ \E c \in {"1", "3", "4"} :
          /\ choice' = c
          /\ \E msg \in ParseErrors(c) : stdout' = << <<msg>> >>
    /\ pc' = "panicked"
    /\ index' = None
    /\ NoForecast
    /\ UNCHANGED <<budget, file, today>>

Next ==
    \/ AddCmd
    \/ ListCmd
    \/ DeleteCmd
    \/ EditCmd
    \/ ForecastCmd
    \/ ExitCmd
    \/ InvalidOption
    \/ InputPanic

Spec == Init /\ [][Next]_vars

\* forecast applied to every persisted store of the bounded set
InitForecast == \E s \in Stores, date \in AsOfDates : Start(Json(s), date)
NextForecast == ForecastCmd
SpecForecast == InitForecast /\ [][NextForecast]_vars

\* forecast applied on every day of the calendar range
InitCheckpoints == \E f \in InitFiles, date \in AllDays : Start(f, date)
NextCheckpoints == ForecastCmd
SpecCheckpoints == InitCheckpoints /\ [][NextCheckpoints]_vars

(***************************************************************************)
(* What the specification says an expansion is, in closed form: the step   *)
(* of a period, the number of events of a transaction, and the dates.      *)
(***************************************************************************)
StepDays(period) ==
    CASE period = "weekly"   -> 7
      [] period = "biweekly" -> 14
      [] period = "monthly"  -> 30

Recurs(t) == t.recurrence # None /\ t.recurrence[1] \in {"weekly", "biweekly", "monthly"}

EventCount(t) == IF Recurs(t) THEN t.recurrence[2] + 1 ELSE 1

\* the date of the j-th event of t, j = 0 for the original
EventDate(t, j) == IF j = 0 THEN t.date ELSE t.date + j * StepDays(t.recurrence[1])

\* the number of events emitted for the transactions before position i (1-based)
RECURSIVE EventsBefore(_, _)
EventsBefore(ts, i) ==
    IF i <= 1 THEN 0 ELSE EventsBefore(ts, i - 1) + EventCount(ts[i - 1])

\* the sum of the amounts of the events of ts[1..n] dated strictly before date
RECURSIVE AmountBefore(_, _, _)
AmountBefore(ts, n, date) ==
    IF n = 0 THEN 0
    ELSE AmountBefore(ts, n - 1, date)
            + ts[n].amount
                * Cardinality({j \in 0..(EventCount(ts[n]) - 1) : EventDate(ts[n], j) < date})

Forecasted == choice = "5"

NextMonth(c) == IF c[2] = 12 THEN <<c[1] + 1, 1>> ELSE <<c[1], c[2] + 1>>

IsLeap(y) == y % 4 = 0 /\ (y % 100 # 0 \/ y % 400 = 0)

DaysInMonth(y, m) ==
    IF m = 2 THEN (IF IsLeap(y) THEN 29 ELSE 28)
    ELSE IF m \in {4, 6, 9, 11} THEN 30 ELSE 31

ZeroNotice == <<"Balance reaches zero/negative within the displayed period.">>

WriteFailed == <<"Failed to write file">>

(***************************************************************************)
(* The claims.                                                             *)
(***************************************************************************)

\* C1: the balance forecast records at each checkpoint is the store's
\* balance plus the amounts of all expanded events (originals and repeats,
\* those before the as-of date included) dated strictly before the
\* checkpoint; an event dated on the checkpoint is not counted there.
C1_BalanceAccumulation ==
    Forecasted =>
        \A k \in DOMAIN month_balances :
            month_balances[k][2] =
                budget.balance
                    + AmountBefore(budget.transactions, Len(budget.transactions),
                                   month_balances[k][1])

\* C1 witness: a forecast of two transactions where an event is dated before
\* the as-of date and another on a checkpoint, which is counted at the next
\* checkpoint and not at its own
C1_Witness ==
    /\ Forecasted
    /\ Len(budget.transactions) = 2
    /\ Len(events) > 2
    /\ \E e \in DOMAIN events : events[e].date < today
    /\ \E e \in DOMAIN events : \E k \in 2..(HORIZON - 1) :
          /\ events[e].date = month_balances[k][1]
          /\ month_balances[k][2] = month_balances[k - 1][2]
          /\ month_balances[k + 1][2] # month_balances[k][2]

\* C2: forecast yields 12 pairs whatever the store holds, also when the
\* running balance is zero or negative at a checkpoint.
C2_TwelvePairs == Forecasted => Len(month_balances) = HORIZON

\* C2 witness: a forecast whose first checkpoint balance is already <= 0
\* and whose store holds transactions
C2_Witness ==
    /\ Forecasted
    /\ Len(month_balances) = HORIZON
    /\ month_balances[1][2] <= 0
    /\ Len(budget.transactions) > 0

\* C3: forecast reports reached_nonpositive, true exactly when one of the
\* recorded checkpoint balances is <= 0.
C3_ReachedNonpositiveReported ==
    Forecasted =>
        ((\E l \in DOMAIN stdout : Len(stdout[l]) = 1 /\ stdout[l] = ZeroNotice)
            <=> (\E k \in DOMAIN month_balances : month_balances[k][2] <= 0))

\* C4: a transaction with recurrence (period, n) emits n + 1 events when the
\* period is weekly, biweekly or monthly and 1 event otherwise; one without
\* recurrence emits 1 event; every emitted event carries its amount.
C4_ExpansionCardinality ==
    Forecasted =>
        LET ts == budget.transactions
        IN  /\ Len(events) = EventsBefore(ts, Len(ts) + 1)
            /\ \A i \in DOMAIN ts : \A j \in 1..EventCount(ts[i]) :
                  events[EventsBefore(ts, i) + j].amount = ts[i].amount

\* C4 witness: a forecast of a store with an unrecognized period of positive
\* count next to a recognized one
C4_Witness ==
    /\ Forecasted
    /\ \E i \in DOMAIN budget.transactions :
          LET r == budget.transactions[i].recurrence
          IN  r # None /\ r[1] = "daily" /\ r[2] > 0
    /\ \E i \in DOMAIN budget.transactions : Recurs(budget.transactions[i])
    /\ Len(events) > Len(budget.transactions)

\* C5: the events of a recurring transaction with a recognized period are
\* dated date + j * step, step 7 for weekly, 14 for biweekly, 30 for monthly.
C5_StepCorrectness ==
    Forecasted =>
        LET ts == budget.transactions
        IN  \A i \in DOMAIN ts :
                Recurs(ts[i]) =>
                    \A j \in 0..ts[i].recurrence[2] :
                        /\ EventsBefore(ts, i) + 1 + j <= Len(events)
                        /\ events[EventsBefore(ts, i) + 1 + j].date = EventDate(ts[i], j)

\* C5 witness: a forecast of a monthly and a weekly transaction, both repeated
C5_Witness ==
    /\ Forecasted
    /\ \E i, k \in DOMAIN budget.transactions :
          /\ budget.transactions[i].recurrence = <<"monthly", MaxCount>>
          /\ budget.transactions[k].recurrence = <<"weekly", MaxCount>>
    /\ Len(events) = 2 * (MaxCount + 1)

\* C6: the checkpoint dates are strictly increasing first days of months,
\* each one calendar month after the previous, the first being the 1st of
\* the month after the as-of date's month.
C6_CheckpointDates ==
    Forecasted =>
        /\ Len(month_balances) = HORIZON
        /\ LET c1 == civil_from_days(month_balances[1][1])
           IN  c1[3] = 1 /\ <<c1[1], c1[2]>> = NextMonth(civil_from_days(today))
        /\ \A k \in 2..Len(month_balances) :
              LET prev == civil_from_days(month_balances[k - 1][1])
                  cur  == civil_from_days(month_balances[k][1])
              IN  /\ cur[3] = 1
                  /\ <<cur[1], cur[2]>> = NextMonth(prev)
                  /\ month_balances[k][1] > month_balances[k - 1][1]
                  /\ month_balances[k][1] - month_balances[k - 1][1]
                        = DaysInMonth(prev[1], prev[2])

\* C6 witness: a forecast run on 31 January of a leap year
C6_Witness ==
    /\ Forecasted
    /\ civil_from_days(today) = <<2024, 1, 31>>
    /\ civil_from_days(month_balances[1][1]) = <<2024, 2, 1>>
    /\ civil_from_days(month_balances[HORIZON][1]) = <<2025, 1, 1>>

\* C7: delete_transaction(i) with i < count removes the transaction at
\* position i: the count drops by one, the positions below i are untouched,
\* each later transaction moves down by one, the balance is unchanged.
C7_DeleteShifts ==
    [][(choice' = "3" /\ index' # None /\ index'[1] < Len(budget.transactions)) =>
          LET old == budget.transactions
              new_ts == budget'.transactions
              i == index'[1]
          IN  /\ Len(new_ts) = Len(old) - 1
              /\ \A p \in 0..(Len(old) - 1) :
                    /\ p < i => new_ts[p + 1] = old[p + 1]
                    /\ p > i => new_ts[p] = old[p + 1]
              /\ budget'.balance = budget.balance]_vars

\* C7 witness: position 0 of a store of MaxTx transactions was deleted and a
\* transaction is left
C7_Witness ==
    /\ choice = "3"
    /\ index = <<0>>
    /\ Len(budget.transactions) = MaxTx - 1
    /\ pc = "waiting"

\* C8: edit_transaction and delete_transaction with position >= count leave
\* the store unchanged and report the condition; the turn ends back at the
\* menu (unless the rewrite of the file that follows fails).
C8_OutOfRange ==
    [][(choice' \in {"3", "4"} /\ index' # None /\ index'[1] >= Len(budget.transactions)) =>
          /\ budget' = budget
          /\ Len(stdout') >= 1
          /\ stdout'[1] = InvalidId
          /\ (pc' = "waiting" \/ stdout'[Len(stdout')] = WriteFailed)]_vars

\* C8 witness: an out-of-range edit or delete on a non-empty store, back at
\* the menu
C8_Witness ==
    /\ choice \in {"3", "4"}
    /\ index # None
    /\ index[1] >= Len(budget.transactions)
    /\ Len(budget.transactions) > 0
    /\ stdout = <<InvalidId>>
    /\ pc = "waiting"

\* C9: a turn that adds, edits or deletes and returns to the menu leaves the
\* persisted record equal to the store in memory; a turn that lists,
\* forecasts or reads an unknown option writes neither the file nor the store.
C9_SavedAfterMutation ==
    [][/\ (choice' \in {"1", "3", "4"} /\ pc' = "waiting") =>
              (file'.kind = "json" /\ from_str(file'.data[1]) = budget')
       /\ (choice' \in {"2", "5", "other"}) =>
              (file' = file /\ budget' = budget)]_vars

\* C9 witness: back at the menu after a delete that removed a transaction,
\* the file holding the remaining ones
C9_Witness ==
    /\ choice = "3"
    /\ pc = "waiting"
    /\ stdout = << >>
    /\ Len(budget.transactions) > 0
    /\ file = Json(budget)

\* C10: forecast leaves the store's balance and transactions as they were.
C10_ForecastReadOnly ==
    [][choice' = "5" => (budget' = budget /\ file' = file)]_vars

\* C10 witness: a forecast that expanded repeats and accumulated a balance
\* different from the store's
C10_Witness ==
    /\ Forecasted
    /\ Len(events) > Len(budget.transactions)
    /\ month_balances[HORIZON][2] # budget.balance
    /\ file = Json(budget)

====
